---- MODULE Spec2Model ----
(***************************************************************************)
(* Model of the retrieval-and-answer pipeline of the RAG service:          *)
(*   POST /ask -> RagService.process_query -> VectorDatabase.search ->     *)
(*   RagService._rerank_documents_with_openai ->                           *)
(*   RagService._generate_rag_response.                                    *)
(* Scores, distances and similarities are fixed-point numbers in           *)
(* hundredths (100 stands for 1.0).                                        *)
(***************************************************************************)
EXTENDS Integers, Sequences, FiniteSets, TLC

VARIABLES
    store,            \* document_chunks table: chunk id -> row
    openai_client,    \* RagService.openai_client is configured
    vdb_client,       \* VectorDatabase.openai_client is configured
    pc,               \* position of the request's coroutine
    entry,            \* which operation was called: "ask" or "rerank"
    request,          \* the QueryRequest
    retrieval_limit,  \* process_query's retrieval_limit
    query_embedding,  \* search's query_embedding
    similar_docs,     \* process_query's similar_docs / rerank's documents
    scoring_tasks,    \* one score_document task per document
    completed,        \* history: the tasks in the order their calls completed
    reranked,         \* the list _rerank_documents_with_openai returned
    final_docs,       \* process_query's final_docs
    prompt_context,   \* the context block of the completion call's prompt
    completion_reply, \* how the completion call of the request ended
    response,         \* what the caller received
    calls,            \* number of provider / store calls issued so far
    ingest_pc,        \* position of add_document_sections
    sections,         \* add_document_sections' argument
    section_index,    \* the section whose embedding is awaited
    session_new,      \* chunk objects pending in the SQLAlchemy session
    next_id,          \* next value of the document_chunks id sequence
    ingest_result,    \* what add_document_sections returned or raised
    conversations,    \* conversations table: conversation_id -> row
    messages,         \* messages table: message_id -> row
    clock,            \* datetime.now()
    next_uuid,        \* number of uuid4 values drawn so far
    add_message_call, \* POST .../messages between its check and its insert
    conv_response,    \* the last response of a conversation endpoint
    client_result,    \* what the chatbot's RAGClient call returned
    parked,           \* the locals of a second /ask request, while the first runs
    session_messages, \* chatbot: st.session_state.messages
    session_conversation_id, \* chatbot: st.session_state.conversation_id (0 is None)
    chat_pc,          \* chatbot: position of the script in the chat turn
    failures          \* history: the calls of chat turns that raised so far

\* The state of one /ask request and of a direct rerank call.
requestVars == <<openai_client, pc, entry, request, retrieval_limit, query_embedding,
                 similar_docs, scoring_tasks, completed, reranked, final_docs,
                 prompt_context, completion_reply, response, calls>>

\* The state of add_document_sections.
ingestVars == <<ingest_pc, sections, section_index, session_new, next_id, ingest_result>>

\* The conversation tables and the state of the conversation endpoints.
convVars == <<conversations, messages, clock, next_uuid, add_message_call,
              conv_response, client_result>>

\* The state of the chatbot's session.
chatVars == <<session_messages, session_conversation_id, chat_pc, failures>>

vars == <<store, vdb_client, requestVars, ingestVars, convVars, parked, chatVars>>

----------------------------------------------------------------------------
(* Bounds of the model *)

MaxChunks == 3      \* at most this many stored chunks
MaxTopK == 2        \* top_k ranges over -1 .. MaxTopK
MaxEmb == 2         \* query embeddings range over 0 .. MaxEmb
MaxSortLen == 7     \* longest score list of the sort-only specification
MaxOrderLen == 3    \* most candidates when the order of completion is recorded
MaxSections == 2    \* longest batch given to add_document_sections
MaxChunkId == 2     \* chunk ids of ingested sections range over 1 .. MaxChunkId
MaxId == 3          \* no ingestion starts once the id sequence has passed this
MaxUuid == 3        \* at most this many uuid4 values are drawn
MaxTurns == 2       \* at most this many prompts in one chatbot session
TwoChunks == 2      \* stored chunks when two requests run
MaxClock == 2       \* datetime.now() ranges over 0 .. MaxClock

----------------------------------------------------------------------------
(* Small helpers *)

Min(a, b) == IF a < b THEN a ELSE b
Max(a, b) == IF a > b THEN a ELSE b
Abs(a) == IF a < 0 THEN -a ELSE a
Range(s) == {s[i] : i \in 1..Len(s)}
ReverseSeq(s) == [i \in 1..Len(s) |-> s[Len(s) + 1 - i]]

\* s[:k + 1]: a truncation that keeps one element too many.
SlicePrefixOffByOne(s, k) == SubSeq(s, 1, IF k + 1 < Len(s) THEN k + 1 ELSE Len(s))

\* Python's s[:k] for an int k: a negative k counts from the end.
SlicePrefix(s, k) ==
    LET n == IF k >= 0 THEN Min(k, Len(s)) ELSE Max(Len(s) + k, 0)
    IN  SubSeq(s, 1, n)

\* str.strip() on a query given as a sequence of characters.
RECURSIVE LStrip(_)
LStrip(q) == IF q # <<>> /\ Head(q) = " " THEN LStrip(Tail(q)) ELSE q

\* A guard that tests the query without stripping it.
StripNothing(q) == q

Strip(q) == ReverseSeq(LStrip(ReverseSeq(LStrip(q))))

----------------------------------------------------------------------------
(* Floats: Python's float values as hundredths, plus NaN *)

NaN == 1000000      \* float('nan'): json.loads accepts the literal NaN

\* Python's a < b on floats: every comparison with NaN is False.
FloatLt(a, b) == a # NaN /\ b # NaN /\ a < b
FloatGt(a, b) == FloatLt(b, a)
FloatEq(a, b) == a # NaN /\ b # NaN /\ a = b

----------------------------------------------------------------------------
(* sorted(scored_docs, key=lambda x: x[0], reverse=True)                   *)
(* CPython's list.sort for fewer than 64 elements: reverse the list, find  *)
(* the leading run, binary-insertion-sort the rest using only <, reverse   *)
(* the result.  The operators work on a sequence a of indices into keys.   *)

RECURSIVE CountRunFrom(_, _, _, _)
CountRunFrom(a, keys, n, descending) ==
    IF n = Len(a) THEN n
    ELSE LET lt == FloatLt(keys[a[n + 1]], keys[a[n]])
         IN  IF (descending /\ lt) \/ (~descending /\ ~lt)
             THEN CountRunFrom(a, keys, n + 1, descending)
             ELSE n

RunDescending(a, keys) == FloatLt(keys[a[2]], keys[a[1]])
CountRun(a, keys) == CountRunFrom(a, keys, 2, RunDescending(a, keys))

RECURSIVE BinarySearch(_, _, _, _, _)
BinarySearch(a, keys, pivot, l, r) ==
    IF l >= r THEN l
    ELSE LET p == l + ((r - l) \div 2)
         IN  IF FloatLt(keys[pivot], keys[a[p]])
             THEN BinarySearch(a, keys, pivot, l, p)
             ELSE BinarySearch(a, keys, pivot, p + 1, r)

InsertAt(a, start, pos) ==
    [i \in 1..Len(a) |->
        IF i < pos \/ i > start THEN a[i]
        ELSE IF i = pos THEN a[start]
        ELSE a[i - 1]]

RECURSIVE BinarySort(_, _, _)
BinarySort(a, keys, start) ==
    IF start > Len(a) THEN a
    ELSE BinarySort(InsertAt(a, start, BinarySearch(a, keys, a[start], 1, start)),
                    keys, start + 1)

\* The order (as indices into keys) in which list.sort leaves the elements.
ListSort(keys, reverse) ==
    LET n  == Len(keys)
        a0 == IF reverse THEN [i \in 1..n |-> n + 1 - i] ELSE [i \in 1..n |-> i]
    IN  IF n < 2 THEN [i \in 1..n |-> i]
        ELSE LET run == CountRun(a0, keys)
                 a1  == IF RunDescending(a0, keys)
                        THEN [i \in 1..n |-> IF i <= run THEN a0[run + 1 - i] ELSE a0[i]]
                        ELSE a0
                 a2  == BinarySort(a1, keys, run + 1)
             IN  IF reverse THEN ReverseSeq(a2) ELSE a2

\* A sort without reverse=True.
SortedByScoreAsc(keys) == ListSort(keys, FALSE)

SortedByScoreDesc(keys) == ListSort(keys, TRUE)

----------------------------------------------------------------------------
(* The vector store: table document_chunks and VectorDatabase.search *)

\* The rows a store of n chunks holds after ingestion.
InitialStore(n) ==
    [c \in 1..n |-> [id |-> c, document_id |-> "doc1", chunk_id |-> c,
                     filename |-> "file1", chunk_text |-> c, dense_vector |-> c]]

QueryEmbeddings == 0..MaxEmb

\* dense_vector.cosine_distance(query_embedding), on one-dimensional vectors:
\* a distance between 0.0 and 2.0.
CosineDistance(v, q) == Min(25 * Abs(v - q), 200)

\* ORDER BY distance LIMIT k: the k nearest rows, ascending; rows at equal
\* distance come in any order.
SearchResults(rows, q, k) ==
    LET ids  == DOMAIN rows
        m    == Min(k, Cardinality(ids))
        d(c) == CosineDistance(rows[c].dense_vector, q)
    IN  {s \in [1..m -> ids] :
            /\ \A i, j \in 1..m : i < j => s[i] # s[j] /\ d(s[i]) <= d(s[j])
            /\ \A c \in ids \ Range(s) : \A i \in 1..m : d(s[i]) <= d(c)}

\* One entry of search's formatted list.
FormatRow(row, q) ==
    LET distance == CosineDistance(row.dense_vector, q)
    IN  [id |-> row.id, document_id |-> row.document_id, chunk_id |-> row.chunk_id,
         filename |-> row.filename, chunk_text |-> row.chunk_text,
         distance |-> distance, similarity |-> 100 - distance]

Formatted(rows, s, q) == [i \in 1..Len(s) |-> FormatRow(rows[s[i]], q)]

----------------------------------------------------------------------------
(* The judge: score_document *)

\* What one judge call can do, by the path score_document takes:
\*   "raise"        an exception reaches the outer except: the call raised,
\*                  the content is None, or float() raised TypeError
\*   "no_json"      the text has no '{' ... '}'
\*   "bad_json"     json.loads raises JSONDecodeError
\*   "missing"      the object has no relevance_score
\*   "non_numeric"  float() raises ValueError
\*   "number"       float() converts the relevance_score; value is the float
JudgeFailures == {"raise", "no_json", "bad_json", "missing", "non_numeric"}
JudgeNumbers == {0, 50, 150, NaN}
JudgeReplies ==
    [kind : JudgeFailures, value : {0}] \cup [kind : {"number"}, value : JudgeNumbers]

Pending == [kind |-> "pending", value |-> 0]

\* A default of 0.5 instead of 0.0 for a reply without relevance_score.
ParseScoreDefaultHalf(reply) ==
    IF reply.kind = "number" THEN reply.value
    ELSE IF reply.kind = "missing" THEN 50
    ELSE 0

\* The score score_document returns for a reply.
ParseScore(reply) ==
    IF reply.kind = "raise" THEN 0                 \* except Exception: return (0.0, doc)
    ELSE IF reply.kind = "no_json" THEN 0          \* else: return (0.0, doc)
    ELSE IF reply.kind = "bad_json" THEN 0         \* except json.JSONDecodeError
    ELSE IF reply.kind = "non_numeric" THEN 0      \* except ValueError
    ELSE IF reply.kind = "missing" THEN 0          \* float(parsed.get(..., 0.0))
    ELSE reply.value                               \* float(parsed['relevance_score'])

\* scored_docs after gather: the scores, in the order of documents.
ScoresOf(tasks) == [i \in DOMAIN tasks |-> ParseScore(tasks[i].reply)]

\* Results collected as the calls complete (asyncio.as_completed).
GatherOrderAsCompleted(tasks) == completed

\* asyncio.gather(*tasks): the results come in the order of the awaitables,
\* whatever the order in which they completed.
GatherOrder(tasks) == [i \in DOMAIN tasks |-> i]

\* scored_docs: the (score, doc) pairs gather returns.
ScoredDocs(documents, tasks) ==
    LET g == GatherOrder(tasks)
    IN  [k \in DOMAIN g |-> [score |-> ParseScore(tasks[g[k]].reply),
                             doc |-> documents[g[k]]]]

\* A rerank that writes each score into the record it returns.
RerankOutputAttaching(documents, scores) ==
    LET order == SortedByScoreDesc(scores)
    IN  [p \in 1..Len(documents) |->
            [relevance_score |-> scores[order[p]]] @@ documents[order[p]]]

\* A rerank that overwrites the similarity of each record with its score.
RerankOutputRescoring(documents, scores) ==
    LET order == SortedByScoreDesc(scores)
    IN  [p \in 1..Len(documents) |->
            [documents[order[p]] EXCEPT !.similarity = scores[order[p]]]]

\* The list rerank returns: [doc for score, doc in reranked_docs].
RerankOutput(documents, scores) ==
    LET order == SortedByScoreDesc(scores)
    IN  [p \in 1..Len(documents) |-> documents[order[p]]]

\* A gather that returns as soon as one task is done.
AllDoneFirst(tasks) == \E i \in DOMAIN tasks : tasks[i].done

AllDone(tasks) == \A i \in DOMAIN tasks : tasks[i].done

----------------------------------------------------------------------------
(* Requests and responses *)

Queries == {<<>>, <<" ">>, <<"q">>}
TopKs == (-1)..MaxTopK

NoRequest == [query |-> <<>>, top_k |-> 0, use_reranking |-> FALSE]
NoCalls == [embedding |-> 0, store |-> 0, judge |-> 0, completion |-> 0]

NoInfoText == "I couldn't find any relevant information to answer your question."
DegradedText == "An error occurred while generating the response."
NoClientText == "Error: OpenAI client not configured."

NoResponse == [status |-> 0, detail |-> "", response |-> "", sources |-> <<>>]
HttpError(status, detail) ==
    [status |-> status, detail |-> detail, response |-> "", sources |-> <<>>]
QueryResponse(text, sources) ==
    [status |-> 200, detail |-> "", response |-> text, sources |-> sources]

CompletionReplies == {"raise", "no_content", "answer"}

\* A degraded answer that drops the sources.
CompletionFailureResponseNoSources(fd) == QueryResponse(DegradedText, <<>>)

\* The answer of a request whose completion call raised: _generate_rag_response
\* returns the fixed text and process_query returns it with final_docs.
CompletionFailureResponse(fd) == QueryResponse(DegradedText, fd)

----------------------------------------------------------------------------
(* process_query, from the point where final_docs is known (step 3) *)

\* A context block that lists the candidates in reverse order.
ContextOfReversed(docs) ==
    [i \in 1..Len(docs) |->
        [filename |-> docs[Len(docs) + 1 - i].filename,
         chunk_id |-> docs[Len(docs) + 1 - i].chunk_id,
         content |-> docs[Len(docs) + 1 - i].chunk_text]]

\* _generate_rag_response's context: one "Source: {filename} - Chunk
\* {chunk_id}" / "Content: {chunk_text}" entry per document, in order.
ContextOf(docs) ==
    [i \in 1..Len(docs) |->
        [filename |-> docs[i].filename, chunk_id |-> docs[i].chunk_id,
         content |-> docs[i].chunk_text]]

\* Step 3 without the "if final_docs" guard: always calls the completion.
GenerateResponseNoGuard(fd, c) ==
    /\ final_docs' = fd
    /\ pc' = "completion"
    /\ prompt_context' = ContextOf(fd)
    /\ response' = response
    /\ calls' = [c EXCEPT !.completion = @ + 1]

\* fd is final_docs, c the calls issued so far.
GenerateResponse(fd, c) ==
    /\ final_docs' = fd
    /\ IF fd # <<>>
       THEN IF ~openai_client
            THEN /\ pc' = "done"
                 /\ response' = QueryResponse(NoClientText, fd)
                 /\ calls' = c
                 /\ UNCHANGED prompt_context
            ELSE /\ pc' = "completion"     \* chat.completions.create is in flight
                 /\ prompt_context' = ContextOf(fd)
                 /\ response' = response
                 /\ calls' = [c EXCEPT !.completion = @ + 1]
       ELSE /\ pc' = "done"
            /\ response' = QueryResponse(NoInfoText, fd)
            /\ calls' = c
            /\ UNCHANGED prompt_context

\* An over-fetch of twice top_k.
RetrievalLimitTimesTwo(k, rr) == IF rr THEN k * 2 ELSE k

\* process_query's retrieval_limit for top_k = k and use_reranking = rr.
RetrievalLimit(k, rr) == IF rr THEN k * 3 ELSE k

\* A step 2 that ignores use_reranking.
ShouldRerankAlways(rr, docs) == docs # <<>>

\* process_query's test for step 2: if request.use_reranking and similar_docs.
ShouldRerank(rr, docs) == rr /\ docs # <<>>

\* A no-op test that forgets the missing judge client.
RerankIsNoOpOnlyEmpty(documents) == documents = <<>>

\* _rerank_documents_with_openai up to its first await: the no-op return
\* (TRUE) or the fan-out of one score_document task per document (FALSE).
RerankIsNoOp(documents) == ~openai_client \/ documents = <<>>

NewTasks(documents) == [i \in 1..Len(documents) |-> [done |-> FALSE, reply |-> Pending]]

----------------------------------------------------------------------------
(* Actions *)

\* POST /ask: get_rag_service, the empty-query guard, then process_query up
\* to the embeddings call of search.
Ask(q, k, rr) ==
    /\ pc = "idle"
    /\ entry' = "ask"
    /\ request' = [query |-> q, top_k |-> k, use_reranking |-> rr]
    /\ UNCHANGED <<store, openai_client, vdb_client, query_embedding, similar_docs,
                   scoring_tasks, reranked, final_docs>>
    /\ IF ~openai_client
       THEN \* get_rag_service raises RuntimeError: the framework answers 500
            /\ pc' = "failed"
            /\ response' = HttpError(500, "Internal Server Error")
            /\ UNCHANGED <<retrieval_limit, calls>>
       ELSE IF Strip(q) = <<>>
       THEN /\ pc' = "failed"
            /\ response' = HttpError(400, "Query cannot be empty")
            /\ UNCHANGED <<retrieval_limit, calls>>
       ELSE /\ retrieval_limit' = RetrievalLimit(k, rr)
            /\ IF ~vdb_client
               THEN \* search raises ValueError, ask answers 500
                    /\ pc' = "failed"
                    /\ response' = HttpError(500, "Internal server error")
                    /\ UNCHANGED calls
               ELSE /\ pc' = "embedding"
                    /\ calls' = [calls EXCEPT !.embedding = @ + 1]
                    /\ UNCHANGED response
    /\ UNCHANGED <<completed, prompt_context, completion_reply, ingestVars, convVars, parked, chatVars>>

\* embeddings.create returns the query embedding; search issues its query.
EmbeddingReturns(e) ==
    /\ pc = "embedding"
    /\ query_embedding' = e
    /\ pc' = "store_query"
    /\ calls' = [calls EXCEPT !.store = @ + 1]
    /\ UNCHANGED <<store, openai_client, vdb_client, entry, request, retrieval_limit,
                   similar_docs, scoring_tasks, reranked, final_docs, response>>
    /\ UNCHANGED <<completed, prompt_context, completion_reply, ingestVars, convVars, parked, chatVars>>

\* A search that calls embeddings.create a second time before it gives up.
EmbeddingFailsRetrying ==
    /\ pc = "embedding"
    /\ IF calls.embedding < 2
       THEN /\ pc' = "embedding"
            /\ calls' = [calls EXCEPT !.embedding = @ + 1]
            /\ UNCHANGED response
       ELSE /\ pc' = "failed"
            /\ response' = HttpError(500, "Internal server error")
            /\ UNCHANGED calls
    /\ UNCHANGED <<store, openai_client, vdb_client, entry, request, retrieval_limit,
                   query_embedding, similar_docs, scoring_tasks, reranked, final_docs>>
    /\ UNCHANGED <<completed, prompt_context, completion_reply, ingestVars, convVars, parked, chatVars>>

\* embeddings.create raises: get_embedding and search re-raise, ask answers 500.
EmbeddingFails ==
    /\ pc = "embedding"
    /\ pc' = "failed"
    /\ response' = HttpError(500, "Internal server error")
    /\ UNCHANGED <<store, openai_client, vdb_client, entry, request, retrieval_limit,
                   query_embedding, similar_docs, scoring_tasks, reranked, final_docs,
                   calls>>
    /\ UNCHANGED <<completed, prompt_context, completion_reply, ingestVars, convVars, parked, chatVars>>

\* The similarity query raises (always so for a negative LIMIT).
StoreQueryFails ==
    /\ pc = "store_query"
    /\ pc' = "failed"
    /\ response' = HttpError(500, "Internal server error")
    /\ UNCHANGED <<store, openai_client, vdb_client, entry, request, retrieval_limit,
                   query_embedding, similar_docs, scoring_tasks, reranked, final_docs,
                   calls>>
    /\ UNCHANGED <<completed, prompt_context, completion_reply, ingestVars, convVars, parked, chatVars>>

\* The similarity query returns s; process_query goes on to step 2, until
\* its next await.
StoreQueryReturns(s) ==
    /\ LET docs == Formatted(store, s, query_embedding)
       IN  /\ similar_docs' = docs
           /\ IF ShouldRerank(request.use_reranking, docs)
              THEN IF RerankIsNoOp(docs)
                   THEN /\ reranked' = docs
                        /\ UNCHANGED scoring_tasks
                        /\ GenerateResponse(SlicePrefix(docs, request.top_k), calls)
                   ELSE /\ scoring_tasks' = NewTasks(docs)
                        /\ pc' = "scoring"
                        /\ calls' = [calls EXCEPT !.judge = @ + Len(docs)]
                        /\ UNCHANGED <<reranked, final_docs, prompt_context, response>>
              ELSE /\ UNCHANGED <<scoring_tasks, reranked>>
                   /\ GenerateResponse(SlicePrefix(docs, request.top_k), calls)
    /\ UNCHANGED <<store, openai_client, vdb_client, entry, request, retrieval_limit,
                   query_embedding>>
    /\ UNCHANGED <<completed, completion_reply, ingestVars, convVars, parked, chatVars>>

\* _rerank_documents_with_openai called on its own with a list of candidates.
RerankCall(docs) ==
    /\ entry' = "rerank"
    /\ similar_docs' = docs
    /\ IF RerankIsNoOp(docs)
       THEN /\ reranked' = docs
            /\ pc' = "done"
            /\ UNCHANGED <<scoring_tasks, calls>>
       ELSE /\ scoring_tasks' = NewTasks(docs)
            /\ pc' = "scoring"
            /\ calls' = [calls EXCEPT !.judge = @ + Len(docs)]
            /\ UNCHANGED reranked
    /\ UNCHANGED <<store, openai_client, vdb_client, request, retrieval_limit,
                   query_embedding, final_docs, response>>
    /\ UNCHANGED <<completed, prompt_context, completion_reply, ingestVars, convVars, parked, chatVars>>

\* A score_document that calls the judge a second time when its call raised.
ScoreDocumentStepRetrying(i, r) ==
    /\ ~scoring_tasks[i].done
    /\ IF r.kind = "raise" /\ calls.judge = Len(scoring_tasks)
       THEN /\ calls' = [calls EXCEPT !.judge = @ + 1]
            /\ UNCHANGED scoring_tasks
       ELSE /\ scoring_tasks' = [scoring_tasks EXCEPT ![i] = [done |-> TRUE, reply |-> r]]
            /\ UNCHANGED calls
    /\ UNCHANGED <<store, openai_client, vdb_client, pc, entry, request, retrieval_limit,
                   query_embedding, similar_docs, reranked, final_docs, response>>
    /\ UNCHANGED <<prompt_context, completion_reply, ingestVars, convVars, parked, chatVars>>

\* The judge call of task i ends with reply r; score_document returns.
ScoreDocumentStep(i, r) ==
    /\ ~scoring_tasks[i].done
    /\ scoring_tasks' = [scoring_tasks EXCEPT ![i] = [done |-> TRUE, reply |-> r]]
    /\ UNCHANGED <<store, openai_client, vdb_client, pc, entry, request, retrieval_limit,
                   query_embedding, similar_docs, reranked, final_docs, response, calls>>
    /\ UNCHANGED <<prompt_context, completion_reply, ingestVars, convVars, parked, chatVars>>

ScoreDocument(i, r) == ScoreDocumentStep(i, r) /\ UNCHANGED completed

\* The same step, with the order of completion recorded.
ScoreDocumentTraced(i, r) == ScoreDocumentStep(i, r) /\ completed' = Append(completed, i)

\* gather returns: rerank sorts and returns; process_query truncates and
\* goes on to step 3.
RerankGather ==
    /\ pc = "scoring"
    /\ AllDone(scoring_tasks)
    /\ LET scored_docs == ScoredDocs(similar_docs, scoring_tasks)
           out == RerankOutput([k \in DOMAIN scored_docs |-> scored_docs[k].doc],
                               [k \in DOMAIN scored_docs |-> scored_docs[k].score])
       IN  /\ reranked' = out
           /\ IF entry = "rerank"
              THEN /\ pc' = "done"
                   /\ UNCHANGED <<final_docs, prompt_context, response, calls>>
              ELSE GenerateResponse(SlicePrefix(out, request.top_k), calls)
    /\ UNCHANGED <<store, openai_client, vdb_client, entry, request, retrieval_limit,
                   query_embedding, similar_docs, scoring_tasks>>
    /\ UNCHANGED <<completed, completion_reply, ingestVars, convVars, parked, chatVars>>

\* chat.completions.create of _generate_rag_response ends with reply r.
CompletionReturns(r) ==
    /\ pc = "completion"
    /\ completion_reply' = r
    /\ IF r = "raise"
       THEN /\ pc' = "done"
            /\ response' = CompletionFailureResponse(final_docs)
       ELSE IF r = "no_content"
       THEN \* content is None: QueryResponse(response=None) fails validation,
            \* process_query raises, ask answers 500
            /\ pc' = "failed"
            /\ response' = HttpError(500, "Internal server error")
       ELSE /\ pc' = "done"
            /\ response' = QueryResponse(r, final_docs)
    /\ UNCHANGED <<store, openai_client, vdb_client, entry, request, retrieval_limit,
                   query_embedding, similar_docs, scoring_tasks, reranked, final_docs,
                   calls>>
    /\ UNCHANGED <<completed, prompt_context, ingestVars, convVars, parked, chatVars>>

----------------------------------------------------------------------------------------------------------------------------------------
(* Ingestion: VectorDatabase.add_document_sections                         *)
(* Texts and chunk ids are numbered; 0 stands for the empty string, which  *)
(* all([...]) takes for a missing field.                                   *)

Absent == "<absent>"        \* the section dict has no such key

SectionTexts == {1, 2}

\* A section the loop skips for its empty text, and one without document_id.
EmptyTextSection ==
    [document_id |-> "doc1", chunk_id |-> 1, filename |-> "file1", chunk_text |-> 0]
NoDocumentSection ==
    [document_id |-> Absent, chunk_id |-> 1, filename |-> "file1", chunk_text |-> 1]

SectionValues ==
    [document_id : {"doc1"}, chunk_id : 1..MaxChunkId,
     filename : {"file1"}, chunk_text : SectionTexts]
    \cup {EmptyTextSection, NoDocumentSection}

Batches == UNION {[1..n -> SectionValues] : n \in 0..MaxSections}

NoIngestResult == [status |-> "none", error |-> "", ids |-> {}]
IngestRaised(error) == [status |-> "raised", error |-> error, ids |-> {}]
IngestReturned(ids) == [status |-> "returned", error |-> "", ids |-> ids]

\* all([text_to_embed, document_id, chunk_id, filename])
Complete(section) ==
    /\ section.chunk_text # 0
    /\ section.document_id # Absent
    /\ section.chunk_id # 0

\* The next section at or after i that the loop does not skip, or
\* Len(secs) + 1 when the loop ends.
RECURSIVE NextComplete(_, _)
NextComplete(secs, i) ==
    IF i > Len(secs) THEN i
    ELSE IF Complete(secs[i]) THEN i
    ELSE NextComplete(secs, i + 1)

PairOf(r) == <<r.document_id, r.chunk_id>>

\* The embedding of a text: the stored chunk with text t has dense_vector t.
EmbeddingOf(text) == text

\* DocumentChunk(...) for a section and its embedding: no id is given.
NewChunk(section, e) ==
    [document_id |-> section.document_id, chunk_id |-> section.chunk_id,
     filename |-> section.filename, chunk_text |-> section.chunk_text,
     dense_vector |-> e]

\* The flush of commit: session.merge(chunk) of an object without primary
\* key adds a new object, so every pending chunk is INSERTed with the next
\* ids of the sequence; uq_document_chunk rejects a (document_id, chunk_id)
\* that is stored already or that occurs twice among the pending chunks.
Flush(rows, pending, first_id) ==
    LET n == Len(pending)
        duplicate ==
            \/ \E k \in 1..n : \E c \in DOMAIN rows : PairOf(rows[c]) = PairOf(pending[k])
            \/ \E j, k \in 1..n : j < k /\ PairOf(pending[j]) = PairOf(pending[k])
        added == [c \in first_id..(first_id + n - 1) |->
                    [id |-> c] @@ pending[c - first_id + 1]]
    IN  IF duplicate THEN [ok |-> FALSE, rows |-> rows]
        ELSE [ok |-> TRUE, rows |-> rows @@ added]

\* What the database can do at commit and at the query for the ids.
CommitOutcomes == {"ok", "commit_error", "query_error"}

\* add_document_sections returns or raises: its frame is gone, the session
\* is closed.
IngestEnds(result) ==
    /\ ingest_pc' = IF result.status = "raised" THEN "failed" ELSE "done"
    /\ ingest_result' = result
    /\ sections' = <<>>
    /\ section_index' = 0
    /\ session_new' = <<>>

\* add_document_sections(secs), up to its first await.
AddDocumentSections(secs) ==
    /\ ingest_pc \in {"idle", "done", "failed"}
    /\ next_id <= MaxId
    /\ IF secs = <<>>
       THEN IngestEnds(IngestReturned({}))
       ELSE LET i == NextComplete(secs, 1)
            IN  IF i <= Len(secs) /\ ~vdb_client
                THEN \* get_embedding raises ValueError: rollback, raise
                     IngestEnds(IngestRaised("ValueError"))
                ELSE /\ sections' = secs
                     /\ section_index' = i
                     /\ session_new' = <<>>
                     /\ ingest_result' = NoIngestResult
                     /\ ingest_pc' = IF i > Len(secs) THEN "commit" ELSE "embedding"
    /\ UNCHANGED <<store, vdb_client, next_id, requestVars, convVars, parked, chatVars>>

\* embeddings.create returns for the section awaited: the chunk is merged
\* into the session and the loop goes on to the next complete section.
IngestEmbeddingReturns ==
    /\ ingest_pc = "embedding"
    /\ LET section == sections[section_index]
       IN  session_new' = Append(session_new,
                                 NewChunk(section, EmbeddingOf(section.chunk_text)))
    /\ LET i == NextComplete(sections, section_index + 1)
       IN  /\ section_index' = i
           /\ ingest_pc' = IF i > Len(sections) THEN "commit" ELSE "embedding"
    /\ UNCHANGED <<store, vdb_client, sections, next_id, ingest_result,
                   requestVars, convVars, parked, chatVars>>

\* embeddings.create raises: session.rollback(), raise.
IngestEmbeddingFails ==
    /\ ingest_pc = "embedding"
    /\ IngestEnds(IngestRaised("EmbeddingError"))
    /\ UNCHANGED <<store, vdb_client, next_id, requestVars, convVars, parked, chatVars>>

\* session.commit(), then the query for the ids, then the return.
IngestCommit(outcome) ==
    /\ ingest_pc = "commit"
    /\ LET flush == Flush(store, session_new, next_id)
           doc_ids == {sections[k].document_id : k \in 1..Len(sections)}
       IN  IF outcome = "commit_error"
           THEN \* the connection fails: rollback, raise
                /\ UNCHANGED <<store, next_id>>
                /\ IngestEnds(IngestRaised("OperationalError"))
           ELSE IF ~flush.ok
           THEN \* unique violation: rollback, raise
                /\ store' = store
                /\ next_id' = next_id + Len(session_new)
                /\ IngestEnds(IngestRaised("IntegrityError"))
           ELSE /\ store' = flush.rows
                /\ next_id' = next_id + Len(session_new)
                /\ IF Absent \in doc_ids
                   THEN \* s['document_id'] raises after the commit
                        IngestEnds(IngestRaised("KeyError"))
                   ELSE IF outcome = "query_error"
                   THEN IngestEnds(IngestRaised("OperationalError"))
                   ELSE IngestEnds(IngestReturned(
                            {c \in DOMAIN flush.rows :
                                flush.rows[c].document_id \in doc_ids}))
    /\ UNCHANGED <<vdb_client, requestVars, convVars, parked, chatVars>>

----------------
(* Conversations: the endpoints of conversations.py over                   *)
(* ConversationService, and RAGClient.delete_conversation of the chatbot.  *)
(* uuid4 values are numbered in the order they are drawn.                  *)

Uuids == 1..MaxUuid
Roles == {"user", "assistant"}

NoCall == [conversation_id |-> 0, role |-> "", content |-> ""]
NoConvResponse ==
    [op |-> "none", conversation_id |-> 0, status |-> 0, detail |-> "", error |-> ""]
ConvResponse(op, id, status, detail, error) ==
    [op |-> op, conversation_id |-> id, status |-> status, detail |-> detail,
     error |-> error]

\* ConversationService.delete_conversation's return value when no statement
\* raises: return True.
DeleteSuccess(id) == TRUE

\* RAGClient.delete_conversation: True on a 2xx answer, False on 404, the
\* HTTPError re-raised otherwise.
ClientDeleteResult(status) ==
    IF status < 400 THEN "True"
    ELSE IF status = 404 THEN "False"
    ELSE "raise"

\* A delete that leaves the messages where they are.
MessagesAfterDeleteKeeping(id) == messages

\* delete(Message).where(Message.conversation_id == conversation_id)
MessagesAfterDelete(id) ==
    [m \in {x \in DOMAIN messages : messages[x].conversation_id # id} |-> messages[m]]

\* The ids of the stored messages of a conversation, ordered by created_at;
\* messages with equal created_at are taken in the order of their insertion.
RECURSIVE OrderedByCreatedAt(_)
OrderedByCreatedAt(ids) ==
    IF ids = {} THEN <<>>
    ELSE LET first == CHOOSE m \in ids :
                          \A x \in ids :
                              \/ messages[m].created_at < messages[x].created_at
                              \/ /\ messages[m].created_at = messages[x].created_at
                                 /\ m <= x
         IN  <<first>> \o OrderedByCreatedAt(ids \ {first})

\* ConversationService.get_messages: the MessageList of a conversation.
GetMessages(id) ==
    LET ids == OrderedByCreatedAt({m \in DOMAIN messages : messages[m].conversation_id = id})
    IN  [messages |-> [i \in 1..Len(ids) |-> messages[ids[i]]], total |-> Len(ids)]

\* None, as get_conversation returns it: no uuid4 is numbered 0.
NoConversation == [conversation_id |-> 0, title |-> "", created_at |-> 0, updated_at |-> 0]

\* ConversationService.get_conversation: the conversation, or None.
GetConversation(id) ==
    IF id \in DOMAIN conversations THEN conversations[id] ELSE NoConversation

\* A messages table without its foreign key.
ForeignKeyUnchecked(id) == TRUE

\* messages.conversation_id REFERENCES conversations, checked at the INSERT.
ForeignKeyHolds(id) == id \in DOMAIN conversations

\* An add_message endpoint without the get_conversation test.
ConversationFoundUnchecked(id) == TRUE

\* add_message endpoint: get_conversation(conversation_id) is not None.
ConversationFound(id) == GetConversation(id) # NoConversation

\* datetime.now() moves on.
Tick ==
    /\ clock < MaxClock
    /\ clock' = clock + 1
    /\ UNCHANGED <<store, vdb_client, requestVars, ingestVars, parked, conversations,
                   messages, next_uuid, add_message_call, conv_response,
                   client_result>>
    /\ UNCHANGED chatVars

\* POST /conversations.
PostConversation ==
    /\ next_uuid < MaxUuid
    /\ LET id == next_uuid + 1
       IN  /\ next_uuid' = id
           /\ conversations' = conversations @@
                  (id :> [conversation_id |-> id, title |-> "t",
                          created_at |-> clock, updated_at |-> clock])
           /\ conv_response' = ConvResponse("create", id, 200, "", "")
    /\ UNCHANGED <<store, vdb_client, requestVars, ingestVars, parked, messages, clock,
                   add_message_call, client_result>>

\* The same endpoint, called by another client than the chatbot's session.
CreateConversation == PostConversation /\ UNCHANGED chatVars

\* DELETE /conversations/{id}, called through RAGClient.delete_conversation.
DeleteConversation(id) ==
    /\ messages' = MessagesAfterDelete(id)
    /\ conversations' = [c \in DOMAIN conversations \ {id} |-> conversations[c]]
    /\ conv_response' =
          IF DeleteSuccess(id)
          THEN ConvResponse("delete", id, 200, "Conversation deleted successfully", "")
          ELSE ConvResponse("delete", id, 404, "Conversation not found", "")
    /\ client_result' = ClientDeleteResult(conv_response'.status)
    /\ UNCHANGED <<store, vdb_client, requestVars, ingestVars, parked, clock, next_uuid,
                   add_message_call>>
    /\ UNCHANGED chatVars

\* The same call when a statement of the service raises.
DeleteConversationFails(id) ==
    /\ conv_response' =
          ConvResponse("delete", id, 500, "Internal server error", "OperationalError")
    /\ client_result' = ClientDeleteResult(500)
    /\ UNCHANGED <<store, vdb_client, requestVars, ingestVars, parked, conversations,
                   messages, clock, next_uuid, add_message_call>>
    /\ UNCHANGED chatVars

\* POST /conversations/{id}/messages, up to the call of service.add_message.
PostMessage(id, role, content) ==
    /\ add_message_call = NoCall
    /\ IF ConversationFound(id)
       THEN /\ add_message_call' = [conversation_id |-> id, role |-> role, content |-> content]
            /\ UNCHANGED conv_response
       ELSE /\ conv_response' =
                  ConvResponse("add_message", id, 404, "Conversation not found", "")
            /\ UNCHANGED add_message_call
    /\ UNCHANGED <<store, vdb_client, requestVars, ingestVars, parked, conversations,
                   messages, clock, next_uuid, client_result>>

\* The same endpoint, called by another client than the chatbot's session.
AddMessage(id, role) == PostMessage(id, role, "text") /\ UNCHANGED chatVars

\* get_conversation of the same endpoint raises.
PostMessageCheckFails(id) ==
    /\ add_message_call = NoCall
    /\ conv_response' =
          ConvResponse("add_message", id, 500, "Internal server error", "OperationalError")
    /\ UNCHANGED <<store, vdb_client, requestVars, ingestVars, parked, conversations,
                   messages, clock, next_uuid, add_message_call, client_result>>

\* The same, for another client than the chatbot's session.
AddMessageCheckFails(id) == PostMessageCheckFails(id) /\ UNCHANGED chatVars

\* service.add_message: session.add(message), the select of the conversation
\* (which flushes the INSERT first), conv.updated_at = now, commit.
PostMessageInsert ==
    /\ add_message_call # NoCall
    /\ next_uuid < MaxUuid
    /\ add_message_call' = NoCall
    /\ next_uuid' = next_uuid + 1
    /\ LET id == add_message_call.conversation_id
           message_id == next_uuid + 1
       IN  IF ForeignKeyHolds(id)
           THEN /\ messages' = messages @@
                       (message_id :> [message_id |-> message_id, conversation_id |-> id,
                                       role |-> add_message_call.role,
                                       content |-> add_message_call.content,
                                       created_at |-> clock])
                /\ conversations' =
                       [c \in DOMAIN conversations |->
                           IF c = id THEN [conversations[c] EXCEPT !.updated_at = clock]
                           ELSE conversations[c]]
                /\ conv_response' = ConvResponse("add_message", id, 200, "", "")
           ELSE \* the INSERT violates the foreign key: add_message raises
                /\ UNCHANGED <<messages, conversations>>
                /\ conv_response' = ConvResponse("add_message", id, 500,
                                                 "Internal server error", "IntegrityError")
    /\ UNCHANGED <<store, vdb_client, requestVars, ingestVars, parked, clock, client_result>>

\* The same, for another client than the chatbot's session.
AddMessageInsert == PostMessageInsert /\ UNCHANGED chatVars

\* service.add_message when a statement raises for another reason.
PostMessageInsertFails ==
    /\ add_message_call # NoCall
    /\ add_message_call' = NoCall
    /\ conv_response' = ConvResponse("add_message", add_message_call.conversation_id, 500,
                                     "Internal server error", "OperationalError")
    /\ UNCHANGED <<store, vdb_client, requestVars, ingestVars, parked, conversations,
                   messages, clock, next_uuid, client_result>>

\* The same, for another client than the chatbot's session.
AddMessageInsertFails == PostMessageInsertFails /\ UNCHANGED chatVars

----------------------------------------------------------------------------
(* Two concurrent /ask requests.  get_rag_service builds a RagService per  *)
(* request; process_query, search and rerank keep their state in locals.   *)
(* The request that runs has its locals in the variables of requestVars,   *)
(* the other one has them in parked.                                       *)

\* The locals of the request that runs.
Locals ==
    [pc |-> pc, entry |-> entry, request |-> request,
     retrieval_limit |-> retrieval_limit, query_embedding |-> query_embedding,
     similar_docs |-> similar_docs, scoring_tasks |-> scoring_tasks,
     completed |-> completed, reranked |-> reranked, final_docs |-> final_docs,
     prompt_context |-> prompt_context, completion_reply |-> completion_reply,
     response |-> response, calls |-> calls]

\* The locals of a request that has not started.
IdleLocals ==
    [pc |-> "idle", entry |-> "none", request |-> NoRequest,
     retrieval_limit |-> 0, query_embedding |-> 0,
     similar_docs |-> <<>>, scoring_tasks |-> <<>>,
     completed |-> <<>>, reranked |-> <<>>, final_docs |-> <<>>,
     prompt_context |-> <<>>, completion_reply |-> "none",
     response |-> NoResponse, calls |-> NoCalls]

\* A service that keeps the candidates in an attribute the requests share.
SwitchSharingCandidates ==
    /\ parked' = [Locals EXCEPT !.similar_docs = parked.similar_docs]
    /\ pc' = parked.pc
    /\ entry' = parked.entry
    /\ request' = parked.request
    /\ retrieval_limit' = parked.retrieval_limit
    /\ query_embedding' = parked.query_embedding
    /\ similar_docs' = similar_docs
    /\ scoring_tasks' = parked.scoring_tasks
    /\ completed' = parked.completed
    /\ reranked' = parked.reranked
    /\ final_docs' = parked.final_docs
    /\ prompt_context' = parked.prompt_context
    /\ completion_reply' = parked.completion_reply
    /\ response' = parked.response
    /\ calls' = parked.calls
    /\ UNCHANGED <<store, openai_client, vdb_client, ingestVars, convVars, chatVars>>

\* The other request runs: the event loop resumes its coroutine (or another
\* worker runs it), with its own service object and its own locals.
Switch ==
    /\ parked' = Locals
    /\ pc' = parked.pc
    /\ entry' = parked.entry
    /\ request' = parked.request
    /\ retrieval_limit' = parked.retrieval_limit
    /\ query_embedding' = parked.query_embedding
    /\ similar_docs' = parked.similar_docs
    /\ scoring_tasks' = parked.scoring_tasks
    /\ completed' = parked.completed
    /\ reranked' = parked.reranked
    /\ final_docs' = parked.final_docs
    /\ prompt_context' = parked.prompt_context
    /\ completion_reply' = parked.completion_reply
    /\ response' = parked.response
    /\ calls' = parked.calls
    /\ UNCHANGED <<store, openai_client, vdb_client, ingestVars, convVars, chatVars>>

----------------------------------------------------------------------------
(* The chatbot's chat turn: main.py, "if prompt := st.chat_input(...)".    *)
(* The prompt is "prompt", the answer of a successful ask is "answer"; the *)
(* sources of a message are left out.                                      *)

ApologyText == "Sorry, there was an error with the backend service."

UserMessage == [role |-> "user", content |-> "prompt"]
AssistantMessage == [role |-> "assistant", content |-> "answer"]
Apology == [role |-> "assistant", content |-> ApologyText]

\* A turn that never creates the conversation.
AfterSubmitSkippingCreate(conversation_id) == "add_user"

\* if st.session_state.conversation_id is None: create the conversation.
AfterSubmit(conversation_id) == IF conversation_id = 0 THEN "create" ELSE "add_user"

\* An exception leaves the script: the turn ends, streamlit shows the error.
ChatRaises(call) ==
    /\ chat_pc' = "idle"
    /\ failures' = failures \cup {call}
    /\ UNCHANGED session_messages

\* An exception of the try block: the except branch appends the apology and
\* reruns the script.
ChatExcept(call) ==
    /\ chat_pc' = "idle"
    /\ failures' = failures \cup {call}
    /\ session_messages' = Append(session_messages, Apology)

\* The user submits a prompt: it is appended to the session's messages.
ChatSubmit ==
    /\ chat_pc = "idle"
    /\ Cardinality({i \in DOMAIN session_messages :
                       session_messages[i].role = "user"}) < MaxTurns
    /\ session_messages' = Append(session_messages, UserMessage)
    /\ chat_pc' = AfterSubmit(session_conversation_id)
    /\ UNCHANGED <<session_conversation_id, failures>>
    /\ UNCHANGED <<store, vdb_client, requestVars, ingestVars, convVars, parked>>

\* rag_client.create_conversation(title): POST /conversations answers, or
\* the request raises.
ChatCreateConversation(raises) ==
    /\ chat_pc = "create"
    /\ IF raises
       THEN /\ ChatRaises("create_conversation")
            /\ UNCHANGED <<session_conversation_id, store, vdb_client, requestVars,
                           ingestVars, convVars, parked>>
       ELSE /\ PostConversation
            /\ session_conversation_id' = conv_response'.conversation_id
            /\ chat_pc' = "add_user"
            /\ UNCHANGED <<session_messages, failures>>

\* rag_client.add_message(conversation_id, "user", prompt), up to the
\* endpoint's call of service.add_message.
ChatAddUserMessage(raises) ==
    /\ chat_pc = "add_user"
    /\ IF raises
       THEN PostMessageCheckFails(session_conversation_id)
       ELSE PostMessage(session_conversation_id, "user", UserMessage.content)
    /\ IF add_message_call' # NoCall
       THEN /\ chat_pc' = "add_user_insert"
            /\ UNCHANGED <<session_messages, failures>>
       ELSE ChatRaises("add_user_message")
    /\ UNCHANGED session_conversation_id

\* The rest of the same call: the insert, and the answer to the chatbot.
ChatUserMessageInserted(raises) ==
    /\ chat_pc = "add_user_insert"
    /\ IF raises THEN PostMessageInsertFails ELSE PostMessageInsert
    /\ IF conv_response'.status = 200
       THEN /\ chat_pc' = "ask"
            /\ UNCHANGED <<session_messages, failures>>
       ELSE ChatRaises("add_user_message")
    /\ UNCHANGED session_conversation_id

\* rag_client.ask returns the answer: it is appended to the session's
\* messages.
ChatAskReturns ==
    /\ chat_pc = "ask"
    /\ session_messages' = Append(session_messages, AssistantMessage)
    /\ chat_pc' = "add_assistant"
    /\ UNCHANGED <<session_conversation_id, failures>>
    /\ UNCHANGED <<store, vdb_client, requestVars, ingestVars, convVars, parked>>

\* rag_client.ask raises (the backend answered 4xx or 5xx, or did not answer).
ChatAskRaises ==
    /\ chat_pc = "ask"
    /\ ChatExcept("ask")
    /\ UNCHANGED session_conversation_id
    /\ UNCHANGED <<store, vdb_client, requestVars, ingestVars, convVars, parked>>

\* rag_client.add_message(conversation_id, "assistant", assistant_response,
\* sources), up to the endpoint's call of service.add_message.
ChatAddAssistantMessage(raises) ==
    /\ chat_pc = "add_assistant"
    /\ IF raises
       THEN PostMessageCheckFails(session_conversation_id)
       ELSE PostMessage(session_conversation_id, "assistant", AssistantMessage.content)
    /\ IF add_message_call' # NoCall
       THEN /\ chat_pc' = "add_assistant_insert"
            /\ UNCHANGED <<session_messages, failures>>
       ELSE ChatExcept("add_assistant_message")
    /\ UNCHANGED session_conversation_id

\* The rest of the same call; st.rerun() ends the turn.
ChatAssistantMessageInserted(raises) ==
    /\ chat_pc = "add_assistant_insert"
    /\ IF raises THEN PostMessageInsertFails ELSE PostMessageInsert
    /\ IF conv_response'.status = 200
       THEN /\ chat_pc' = "idle"
            /\ UNCHANGED <<session_messages, failures>>
       ELSE ChatExcept("add_assistant_message")
    /\ UNCHANGED session_conversation_id

\* What selecting the conversation would load into the session: role and
\* content of each message get_messages returns.
PersistedView ==
    LET ms == GetMessages(session_conversation_id).messages
    IN  [i \in 1..Len(ms) |-> [role |-> ms[i].role, content |-> ms[i].content]]

----------------------------------------------------------------------------
(* Specifications *)

\* Nothing has been ingested through add_document_sections yet.
IngestIdle ==
    /\ ingest_pc = "idle"
    /\ sections = <<>>
    /\ section_index = 0
    /\ session_new = <<>>
    /\ next_id = Cardinality(DOMAIN store) + 1
    /\ ingest_result = NoIngestResult

\* No conversation exists and no conversation endpoint has been called.
ConvIdle ==
    /\ conversations = <<>>
    /\ messages = <<>>
    /\ clock = 0
    /\ next_uuid = 0
    /\ add_message_call = NoCall
    /\ conv_response = NoConvResponse
    /\ client_result = "none"

\* The chatbot's session as main.py initializes it.
ChatIdle ==
    /\ session_messages = <<>>
    /\ session_conversation_id = 0
    /\ chat_pc = "idle"
    /\ failures = {}

\* No /ask request and no rerank call has started.
RequestIdle ==
    /\ pc = "idle"
    /\ entry = "none"
    /\ request = NoRequest
    /\ retrieval_limit = 0
    /\ query_embedding = 0
    /\ similar_docs = <<>>
    /\ scoring_tasks = <<>>
    /\ completed = <<>>
    /\ reranked = <<>>
    /\ final_docs = <<>>
    /\ prompt_context = <<>>
    /\ completion_reply = "none"
    /\ response = NoResponse
    /\ calls = NoCalls

Init ==
    /\ \E n \in 0..MaxChunks : store = InitialStore(n)
    /\ openai_client \in BOOLEAN
    /\ vdb_client \in BOOLEAN
    /\ RequestIdle
    /\ IngestIdle
    /\ ConvIdle
    /\ parked = IdleLocals
    /\ ChatIdle

Next ==
    \/ \E q \in Queries, k \in TopKs, rr \in BOOLEAN : Ask(q, k, rr)
    \/ \E e \in QueryEmbeddings : EmbeddingReturns(e)
    \/ EmbeddingFails
    \/ StoreQueryFails
    \/ /\ pc = "store_query"
       /\ retrieval_limit >= 0
       /\ \E s \in SearchResults(store, query_embedding, retrieval_limit) :
             StoreQueryReturns(s)
    \/ /\ pc = "idle"
       /\ \E e \in QueryEmbeddings, k \in 0..MaxChunks :
             \E s \in SearchResults(store, e, k) : RerankCall(Formatted(store, s, e))
    \/ /\ pc = "scoring"
       /\ \E i \in DOMAIN scoring_tasks, r \in JudgeReplies : ScoreDocument(i, r)
    \/ RerankGather
    \/ \E r \in CompletionReplies : CompletionReturns(r)

Spec == Init /\ [][Next]_vars

\* The sort of rerank on its own: rerank was called on n candidates and every
\* score_document task has returned its score; gather is about to return.
SortScores == {0, 50, NaN}

InitSort ==
    /\ \E n \in 1..MaxSortLen :
          /\ store = InitialStore(n)
          /\ similar_docs = Formatted(store, [i \in 1..n |-> i], 0)
          /\ scoring_tasks \in [1..n -> [done : {TRUE}, reply : [kind : {"number"},
                                                                  value : SortScores]]]
          /\ calls = [NoCalls EXCEPT !.judge = n]
    /\ openai_client = TRUE
    /\ vdb_client = TRUE
    /\ pc = "scoring"
    /\ entry = "rerank"
    /\ request = NoRequest
    /\ retrieval_limit = 0
    /\ query_embedding = 0
    /\ completed = <<>>
    /\ reranked = <<>>
    /\ final_docs = <<>>
    /\ prompt_context = <<>>
    /\ completion_reply = "none"
    /\ response = NoResponse
    /\ IngestIdle
    /\ ConvIdle
    /\ parked = IdleLocals
    /\ ChatIdle

NextSort == RerankGather

SpecSort == InitSort /\ [][NextSort]_vars

\* The fan-out of rerank with the order of completion recorded: rerank was
\* called on n candidates and no judge call has completed yet.
OrderReplies ==
    {[kind |-> "raise", value |-> 0], [kind |-> "number", value |-> 50],
     [kind |-> "number", value |-> NaN]}

InitOrder ==
    /\ \E n \in 1..MaxOrderLen :
          /\ store = InitialStore(n)
          /\ similar_docs = Formatted(store, [i \in 1..n |-> i], 0)
          /\ scoring_tasks = NewTasks(similar_docs)
          /\ calls = [NoCalls EXCEPT !.judge = n]
    /\ openai_client = TRUE
    /\ vdb_client = TRUE
    /\ pc = "scoring"
    /\ entry = "rerank"
    /\ request = NoRequest
    /\ retrieval_limit = 0
    /\ query_embedding = 0
    /\ completed = <<>>
    /\ reranked = <<>>
    /\ final_docs = <<>>
    /\ prompt_context = <<>>
    /\ completion_reply = "none"
    /\ response = NoResponse
    /\ IngestIdle
    /\ ConvIdle
    /\ parked = IdleLocals
    /\ ChatIdle

NextOrder ==
    \/ /\ pc = "scoring"
       /\ \E i \in DOMAIN scoring_tasks, r \in OrderReplies : ScoreDocumentTraced(i, r)
    \/ RerankGather

SpecOrder == InitOrder /\ [][NextOrder]_vars

\* One request with top_k = 2 and use_reranking = true over a store of six
\* chunks, the judge scoring the i-th retrieved candidate ScenarioScores[i].
ScenarioScores == <<20, 90, 95, 10, 30, 40>>

InitScenario ==
    /\ store = InitialStore(Len(ScenarioScores))
    /\ openai_client = TRUE
    /\ vdb_client = TRUE
    /\ RequestIdle
    /\ IngestIdle
    /\ ConvIdle
    /\ parked = IdleLocals
    /\ ChatIdle

NextScenario ==
    \/ Ask(<<"q">>, 2, TRUE)
    \/ \E e \in QueryEmbeddings : EmbeddingReturns(e)
    \/ /\ pc = "store_query"
       /\ \E s \in SearchResults(store, query_embedding, retrieval_limit) :
             StoreQueryReturns(s)
    \/ /\ pc = "scoring"
       /\ \E i \in DOMAIN scoring_tasks :
             ScoreDocument(i, [kind |-> "number", value |-> ScenarioScores[i]])
    \/ RerankGather
    \/ \E r \in CompletionReplies : CompletionReturns(r)

SpecScenario == InitScenario /\ [][NextScenario]_vars

\* Ingestion on its own: a sequence of add_document_sections calls.
InitIngest ==
    /\ \E n \in 0..MaxChunkId : store = InitialStore(n)
    /\ openai_client = TRUE
    /\ vdb_client \in BOOLEAN
    /\ RequestIdle
    /\ IngestIdle
    /\ ConvIdle
    /\ parked = IdleLocals
    /\ ChatIdle

NextIngest ==
    \/ \E secs \in Batches : AddDocumentSections(secs)
    \/ IngestEmbeddingReturns
    \/ IngestEmbeddingFails
    \/ \E outcome \in CommitOutcomes : IngestCommit(outcome)

SpecIngest == InitIngest /\ [][NextIngest]_vars

\* The conversation endpoints on their own.
InitConv ==
    /\ store = InitialStore(0)
    /\ openai_client = TRUE
    /\ vdb_client = TRUE
    /\ RequestIdle
    /\ IngestIdle
    /\ ConvIdle
    /\ parked = IdleLocals
    /\ ChatIdle

NextConv ==
    \/ Tick
    \/ CreateConversation
    \/ \E id \in Uuids : DeleteConversation(id)
    \/ \E id \in Uuids : DeleteConversationFails(id)
    \/ \E id \in Uuids, role \in Roles : AddMessage(id, role)
    \/ \E id \in Uuids : AddMessageCheckFails(id)
    \/ AddMessageInsert
    \/ AddMessageInsertFails

SpecConv == InitConv /\ [][NextConv]_vars

\* Two /ask requests over one store, with reranking.
TwoEmbeddings == {0, MaxEmb}
TwoReplies == {[kind |-> "raise", value |-> 0], [kind |-> "number", value |-> 50]}

InitTwo ==
    /\ store = InitialStore(TwoChunks)
    /\ openai_client = TRUE
    /\ vdb_client = TRUE
    /\ RequestIdle
    /\ IngestIdle
    /\ ConvIdle
    /\ parked = IdleLocals
    /\ ChatIdle

NextTwo ==
    \/ \E k \in 1..MaxTopK : Ask(<<"q">>, k, TRUE)
    \/ \E e \in TwoEmbeddings : EmbeddingReturns(e)
    \/ /\ pc = "store_query"
       /\ \E s \in SearchResults(store, query_embedding, retrieval_limit) :
             StoreQueryReturns(s)
    \/ /\ pc = "scoring"
       /\ \E i \in DOMAIN scoring_tasks, r \in TwoReplies : ScoreDocument(i, r)
    \/ RerankGather
    \/ \E r \in CompletionReplies : CompletionReturns(r)
    \/ Switch

SpecTwo == InitTwo /\ [][NextTwo]_vars

\* Chat turns of one session of the chatbot, the only client of the
\* conversation endpoints.
InitChat ==
    /\ store = InitialStore(0)
    /\ openai_client = TRUE
    /\ vdb_client = TRUE
    /\ RequestIdle
    /\ IngestIdle
    /\ ConvIdle
    /\ parked = IdleLocals
    /\ ChatIdle

NextChat ==
    \/ Tick
    \/ ChatSubmit
    \/ \E raises \in BOOLEAN : ChatCreateConversation(raises)
    \/ \E raises \in BOOLEAN : ChatAddUserMessage(raises)
    \/ \E raises \in BOOLEAN : ChatUserMessageInserted(raises)
    \/ ChatAskReturns
    \/ ChatAskRaises
    \/ \E raises \in BOOLEAN : ChatAddAssistantMessage(raises)
    \/ \E raises \in BOOLEAN : ChatAssistantMessageInserted(raises)

SpecChat == InitChat /\ [][NextChat]_vars

----------------------------------------------------------------------------
(* Properties *)

\* gather has returned: rerank scored every candidate and sorted.
RerankRan == scoring_tasks # <<>> /\ pc # "scoring"

\* The score of the i-th candidate given to rerank.
Score(i) == ParseScore(scoring_tasks[i].reply)

\* The position of the i-th candidate in the list rerank returned.
PosOf(i) == CHOOSE p \in 1..Len(reranked) : reranked[p] = similar_docs[i]

Answered == entry = "ask" /\ response.status = 200

\* C1: a request with top_k >= 1 whose retrieval succeeds returns exactly
\* min(top_k, number of candidates the store returned) sources, with or
\* without reranking.
C1_SourcesLength ==
    (Answered /\ request.top_k >= 1) =>
        Len(response.sources) = Min(request.top_k, Len(similar_docs))

C1_Witness ==
    /\ Answered /\ RerankRan
    /\ request.top_k = 1
    /\ Len(similar_docs) = 3
    /\ Len(response.sources) = 1

\* C2: the similarity query asks for exactly top_k * 3 candidates when
\* use_reranking is true and exactly top_k when it is false, and the store
\* returns that many unless it holds fewer.
C2_FetchCount ==
    (entry = "ask" /\ calls.store > 0) =>
        LET asked == IF request.use_reranking THEN 3 * request.top_k ELSE request.top_k
        IN  /\ retrieval_limit = asked
            /\ pc \in {"scoring", "completion", "done"} =>
                  Len(similar_docs) = Min(asked, Cardinality(DOMAIN store))

C2_Witness ==
    /\ entry = "ask" /\ pc = "scoring"
    /\ request.use_reranking /\ request.top_k = 1
    /\ retrieval_limit = 3
    /\ Len(similar_docs) = 3

\* C3: when use_reranking is false or the retrieved set is empty, no judge
\* call is issued and the sources are the retrieved candidates in the store's
\* order (ascending distance), truncated to top_k.
C3_NoRerankOrder ==
    (entry = "ask" /\ (~request.use_reranking \/ similar_docs = <<>>)) =>
        /\ calls.judge = 0
        /\ response.status = 200 =>
              /\ Len(response.sources) = Min(request.top_k, Len(similar_docs))
              /\ \A i \in 1..Len(response.sources) : response.sources[i] = similar_docs[i]
              /\ \A i, j \in 1..Len(response.sources) :
                    i < j => response.sources[i].distance <= response.sources[j].distance

C3_Witness ==
    /\ Answered /\ ~request.use_reranking
    /\ request.top_k = 2
    /\ Cardinality(DOMAIN store) = 3
    /\ Len(response.sources) = 2
    /\ response.sources[1].id = 2

\* C4: in the list rerank returns, a candidate with a strictly greater score
\* comes before every candidate with a smaller score.
C4_Monotonic ==
    RerankRan =>
        \A i, j \in DOMAIN scoring_tasks :
            FloatGt(Score(i), Score(j)) => PosOf(i) < PosOf(j)

\* C5: in the list rerank returns, candidates with equal scores keep the
\* relative order they had in the input list.
C5_Stable ==
    RerankRan =>
        \A i, j \in DOMAIN scoring_tasks :
            (i < j /\ FloatEq(Score(i), Score(j))) => PosOf(i) < PosOf(j)

\* C6: whatever subset of the judge calls raises or gives a reply without a
\* usable score, rerank returns normally with all N candidates, each exactly
\* once, ordered as they are when each such reply is a score of 0.0.
ScoresWithFailuresAsZero ==
    [i \in DOMAIN scoring_tasks |->
        IF scoring_tasks[i].reply.kind \in JudgeFailures THEN 0
        ELSE scoring_tasks[i].reply.value]

C7_NoOp ==
    (entry = "rerank" /\ (similar_docs = <<>> \/ ~openai_client)) =>
        /\ pc = "done"
        /\ reranked = similar_docs
        /\ calls = NoCalls

C7_Witness ==
    /\ entry = "rerank" /\ pc = "done"
    /\ ~openai_client
    /\ Len(similar_docs) = 3
    /\ similar_docs[1].id = 2

\* C8 as claimed: after reranking runs every returned candidate carries its
\* relevance_score, and without reranking no candidate carries one.
C8_ScoresAttached ==
    /\ RerankRan =>
          \A p \in 1..Len(reranked) : "relevance_score" \in DOMAIN reranked[p]
    /\ ~RerankRan =>
          \A p \in 1..Len(response.sources) :
              "relevance_score" \notin DOMAIN response.sources[p]

\* C8 as amended: rerank returns the records it was given, reordered; no
\* returned candidate and no source carries a relevance_score, whether or
\* not reranking ran.
C8_NoScoreAttached ==
    /\ RerankRan => Range(reranked) = Range(similar_docs)
    /\ \A d \in Range(reranked) \cup Range(final_docs) \cup Range(response.sources) :
          "relevance_score" \notin DOMAIN d

C8_Witness ==
    /\ Answered /\ RerankRan
    /\ Len(similar_docs) = 3
    /\ Len(response.sources) = 2
    /\ Score(3) = 50 /\ Score(1) = 0 /\ Score(2) = 0
    /\ response.sources[1] = similar_docs[3]

\* C9: every score the reranker assigns and sorts by lies in 0.0 .. 1.0.
C9_ScoreRange ==
    \A i \in DOMAIN scoring_tasks :
        scoring_tasks[i].done => (Score(i) # NaN /\ 0 <= Score(i) /\ Score(i) <= 100)

\* C10: a request left with zero candidates never calls the completion
\* provider and answers with the fixed no-relevant-information text.
C10_NoCandidates ==
    entry = "ask" =>
        /\ calls.completion > 0 => final_docs # <<>>
        /\ (pc = "done" /\ final_docs = <<>>) =>
              /\ calls.completion = 0
              /\ response = QueryResponse(NoInfoText, <<>>)

C10_Witness ==
    /\ entry = "ask" /\ pc = "done"
    /\ request.use_reranking /\ request.top_k = 2
    /\ similar_docs = <<>>
    /\ response.response = NoInfoText

\* The candidates a request is left with before truncation: the list rerank
\* returned when it scored them, the retrieved list otherwise.
Candidates == IF RerankRan THEN reranked ELSE similar_docs

\* C11: when the completion call of a request with at least one final
\* candidate raises, the request still answers successfully, with the fixed
\* degraded text and exactly the sources a successful completion would have
\* returned: the candidates truncated to top_k.
C11_DegradedAnswer ==
    (entry = "ask" /\ completion_reply = "raise") =>
        /\ pc = "done"
        /\ response.status = 200
        /\ response.response = DegradedText
        /\ final_docs # <<>>
        /\ response.sources = final_docs
        /\ response.sources = SlicePrefix(Candidates, request.top_k)

C11_Witness ==
    /\ entry = "ask" /\ completion_reply = "raise"
    /\ RerankRan
    /\ request.top_k = 2
    /\ Len(similar_docs) = 3
    /\ Len(response.sources) = 2
    /\ response.response = DegradedText

\* The query is empty or holds nothing but whitespace.
BlankQuery == \A i \in 1..Len(request.query) : request.query[i] = " "

RetrievalStarted == entry = "ask" /\ openai_client /\ Strip(request.query) # <<>>

\* C13: when the embedding call or the similarity query of a request fails,
\* the request fails: neither call is made a second time, no judge or
\* completion call is made, and the caller gets HTTP 500 with the generic
\* detail "Internal server error", without answer text or sources.
C13_RetrievalFailure ==
    (RetrievalStarted /\ pc = "failed" /\ completion_reply = "none") =>
        /\ response = HttpError(500, "Internal server error")
        /\ response.response = "" /\ response.sources = <<>>
        /\ calls.embedding <= 1 /\ calls.store <= 1
        /\ calls.judge = 0 /\ calls.completion = 0
        /\ scoring_tasks = <<>> /\ final_docs = <<>>

C13_Witness ==
    /\ RetrievalStarted /\ pc = "failed"
    /\ calls = [NoCalls EXCEPT !.embedding = 1, !.store = 1]
    /\ request.use_reranking
    /\ Cardinality(DOMAIN store) = 3
    /\ response.status = 500

\* C14: with top_k = 2, use_reranking = true, six retrieved candidates and
\* judge scores 0.2, 0.9, 0.95, 0.1, 0.3, 0.4 for the candidates at indices
\* 0..5, the sources are the candidates at indices 2 and 1, in that order.
C14_Scenario ==
    (entry = "ask" /\ pc \in {"completion", "done", "failed"}) =>
        /\ Len(similar_docs) = 6
        /\ final_docs = <<similar_docs[3], similar_docs[2]>>
        /\ response.status = 200 => response.sources = final_docs

C14_Witness ==
    /\ Answered
    /\ request.top_k = 2 /\ request.use_reranking
    /\ Len(similar_docs) = 6
    /\ \A i \in 1..6 : scoring_tasks[i].reply.value = ScenarioScores[i]
    /\ response.sources = <<similar_docs[3], similar_docs[2]>>
    /\ response.response = "answer"

\* The pending chunk that is the last of its (document_id, chunk_id) in the
\* session.
LastOfPair(k) ==
    \A j \in (k + 1)..Len(session_new) : PairOf(session_new[j]) # PairOf(session_new[k])

\* C15: an ingestion whose batch holds a section with a (document_id,
\* chunk_id) that is stored already succeeds, unless the database connection
\* fails, and leaves exactly one chunk per pair, carrying the text and the
\* embedding ingested last.
C15_Upsert ==
    [][(/\ ingest_pc = "commit"
        /\ \E k \in 1..Len(session_new) : \E c \in DOMAIN store :
              PairOf(store[c]) = PairOf(session_new[k])
        /\ ingest_result'.error # "OperationalError")
       => /\ ingest_result'.status = "returned"
          /\ \A a, b \in DOMAIN store' : PairOf(store'[a]) = PairOf(store'[b]) => a = b
          /\ \A k \in 1..Len(session_new) :
                LastOfPair(k) =>
                    \E c \in DOMAIN store' :
                        /\ PairOf(store'[c]) = PairOf(session_new[k])
                        /\ store'[c].chunk_text = session_new[k].chunk_text
                        /\ store'[c].dense_vector = session_new[k].dense_vector]_vars

\* C16: no step of a request (search, rerank, answer generation, whether the
\* request succeeds or fails) changes the stored chunks, and rerank returns
\* the candidate records it was given with every field unchanged.
C16_QueryPathReadOnly ==
    [][/\ store' = store
       /\ pc = "scoring" =>
             /\ similar_docs' = similar_docs
             /\ pc' # "scoring" =>
                   /\ Len(reranked') = Len(similar_docs)
                   /\ Range(reranked') = Range(similar_docs)]_vars

C16_Witness ==
    /\ Answered /\ RerankRan
    /\ store = InitialStore(3)
    /\ Len(similar_docs) = 3
    /\ reranked = <<similar_docs[3], similar_docs[1], similar_docs[2]>>
    /\ \A i \in 1..3 : similar_docs[i].chunk_text = store[similar_docs[i].id].chunk_text

\* C17: once the retrieval of a request has succeeded, no outcome of the
\* judge calls or of the completion call makes the request fail.
C17_NoFailureAfterRetrieval ==
    (entry = "ask" /\ pc = "failed") =>
        /\ scoring_tasks = <<>>
        /\ calls.completion = 0

\* C18: deleting a conversation id that does not exist is answered with
\* HTTP 404 "Conversation not found", and the chatbot client returns False.
C18_DeleteMissing ==
    [][(/\ conv_response' # conv_response
        /\ conv_response'.op = "delete"
        /\ conv_response'.conversation_id \notin DOMAIN conversations
        /\ conv_response'.error = "")
       => /\ conv_response'.status = 404
          /\ conv_response'.detail = "Conversation not found"
          /\ client_result' = "False"]_vars

C20_OrderIndependent ==
    (RerankRan /\ Len(completed) = Len(scoring_tasks)) =>
        reranked = RerankOutput(similar_docs, ScoresOf(scoring_tasks))

C20_Witness ==
    /\ RerankRan
    /\ completed = <<3, 1, 2>>
    /\ \A i \in 1..3 : scoring_tasks[i].reply = [kind |-> "number", value |-> 50]
    /\ reranked = similar_docs

\* C21: within one request the embedding call has returned before the
\* similarity query is issued, the similarity query has returned before any
\* judge call is issued, and the completion call is issued only after every
\* judge call has returned or failed.
C21_CallOrder ==
    entry = "ask" =>
        /\ calls.store > 0 =>
              /\ calls.embedding = 1
              /\ pc # "embedding"
        /\ calls.judge > 0 =>
              /\ calls.store = 1
              /\ pc \notin {"embedding", "store_query"}
        /\ calls.completion > 0 =>
              /\ pc \notin {"embedding", "store_query", "scoring"}
              /\ \A i \in DOMAIN scoring_tasks : scoring_tasks[i].done

C21_Witness ==
    /\ Answered
    /\ calls = [embedding |-> 1, store |-> 1, judge |-> 3, completion |-> 1]
    /\ Len(scoring_tasks) = 3
    /\ scoring_tasks[2].reply.kind = "raise"
    /\ \A i \in 1..3 : scoring_tasks[i].done

\* C22: a rerank over N >= 1 candidates with a judge client issues exactly
\* N judge calls, one per candidate, and a task that has returned, with a
\* score or after a failure, is never run again.
C22_ExactlyNJudgeCalls ==
    [][/\ scoring_tasks' # <<>> =>
             /\ Len(scoring_tasks') = Len(similar_docs')
             /\ calls'.judge = Len(similar_docs')
       /\ \A i \in DOMAIN scoring_tasks :
             scoring_tasks[i].done =>
                 /\ i \in DOMAIN scoring_tasks'
                 /\ scoring_tasks'[i] = scoring_tasks[i]]_vars

C22_Witness ==
    /\ RerankRan
    /\ Len(similar_docs) = 3
    /\ calls.judge = 3
    /\ scoring_tasks[1].reply.kind = "raise"
    /\ scoring_tasks[3].reply.kind = "bad_json"

\* Python's a >= b on floats.
FloatGe(a, b) == a # NaN /\ b # NaN /\ a >= b

\* The index in the retrieved pool of a record of it.
IndexOf(doc) == CHOOSE i \in 1..Len(similar_docs) : similar_docs[i] = doc

\* C23: when reranking runs, every returned source was in the retrieved
\* pool, and its score is greater than or equal to the score of every
\* retrieved candidate that was dropped.
C23_TopKBest ==
    (Answered /\ RerankRan) =>
        /\ Range(response.sources) \subseteq Range(similar_docs)
        /\ LET returned == {IndexOf(response.sources[p]) : p \in 1..Len(response.sources)}
               dropped  == (1..Len(similar_docs)) \ returned
           IN  \A i \in returned, j \in dropped : FloatGe(Score(i), Score(j))

\* C24: a request with at least one final candidate issues exactly one
\* completion call, and the context of that call lists exactly the
\* candidates returned as sources, in the same order, each with its filename
\* and chunk_id.
C24_OneCompletionCall ==
    (entry = "ask" /\ final_docs # <<>>) =>
        /\ calls.completion = 1
        /\ Len(prompt_context) = Len(final_docs)
        /\ response.status = 200 =>
              /\ Len(response.sources) = Len(prompt_context)
              /\ \A i \in 1..Len(response.sources) :
                    /\ prompt_context[i].filename = response.sources[i].filename
                    /\ prompt_context[i].chunk_id = response.sources[i].chunk_id
                    /\ prompt_context[i].content = response.sources[i].chunk_text

C24_Witness ==
    /\ Answered
    /\ calls.completion = 1
    /\ Len(response.sources) = 2
    /\ Len(prompt_context) = 2
    /\ response.sources[1].chunk_id # response.sources[2].chunk_id
    /\ prompt_context[1].chunk_id = response.sources[1].chunk_id
    /\ prompt_context[2].chunk_id = response.sources[2].chunk_id

\* C27: no request reaches the retriever with top_k below 1, and no
\* similarity query is issued with a fetch count below 1.
C27_FetchCountAtLeastOne ==
    (entry = "ask" /\ (calls.embedding > 0 \/ calls.store > 0)) =>
        /\ request.top_k >= 1
        /\ retrieval_limit >= 1

\* C28: whenever add_document_sections raises, for an embedding failure, a
\* store failure or a failure while the inserted ids are collected, no chunk
\* of the batch is persisted: the store is as it was before the call's
\* commit step.
C28_RaiseLeavesStore ==
    [][ingest_pc' = "failed" => store' = store]_vars

\* C26: after a delete of conversation c that returns success, no stored
\* message has conversation_id c, get_messages(c) returns an empty list and
\* get_conversation(c) finds nothing.
C26_DeleteRemovesAll ==
    [][\A id \in Uuids :
          (/\ conv_response' # conv_response
           /\ conv_response'.op = "delete"
           /\ conv_response'.conversation_id = id
           /\ conv_response'.status = 200)
          => /\ \A m \in DOMAIN messages' : messages'[m].conversation_id # id
             /\ GetMessages(id)'.total = 0
             /\ GetMessages(id)'.messages = <<>>
             /\ GetConversation(id)' = NoConversation]_vars

C26_Witness ==
    /\ conv_response.op = "delete"
    /\ conv_response.status = 200
    /\ client_result = "True"
    /\ conv_response.conversation_id = 1
    /\ add_message_call.conversation_id = 1
    /\ GetMessages(1).total = 0
    /\ GetConversation(1) = NoConversation
    /\ GetConversation(2) # NoConversation

\* C29: in every reachable state, under any interleaving of
\* create_conversation, add_message and delete_conversation, the
\* conversation_id of every stored message is that of a stored conversation.
C29_NoOrphanMessage ==
    \A m \in DOMAIN messages : messages[m].conversation_id \in DOMAIN conversations

C29_Witness ==
    /\ conv_response.op = "delete"
    /\ conv_response.status = 200
    /\ conv_response.conversation_id = 1
    /\ 1 \notin DOMAIN conversations
    /\ \E m \in DOMAIN messages : messages[m].conversation_id = 2
    /\ 2 \in DOMAIN conversations

\* The response a request with locals L gets when it runs alone against the
\* same store and the same provider replies.
AloneResponse(L) ==
    LET docs   == L.similar_docs
        ranked == IF ShouldRerank(L.request.use_reranking, docs) /\ ~RerankIsNoOp(docs)
                  THEN RerankOutput(docs, ScoresOf(L.scoring_tasks))
                  ELSE docs
        fd     == SlicePrefix(ranked, L.request.top_k)
    IN  IF fd = <<>> THEN QueryResponse(NoInfoText, <<>>)
        ELSE IF L.completion_reply = "raise" THEN QueryResponse(DegradedText, fd)
        ELSE IF L.completion_reply = "no_content"
        THEN HttpError(500, "Internal server error")
        ELSE QueryResponse(L.completion_reply, fd)

\* The candidates of L are a reply of the store to L's own query, L has one
\* scoring task per candidate of its own, and its response, once it has one,
\* is the response of a run alone.
Isolated(L) ==
    /\ L.pc \in {"scoring", "completion", "done"} =>
          /\ \E s \in SearchResults(store, L.query_embedding, L.retrieval_limit) :
                L.similar_docs = Formatted(store, s, L.query_embedding)
          /\ Len(L.scoring_tasks) = Len(L.similar_docs)
    /\ (L.pc \in {"done", "failed"} /\ L.calls.store = 1 /\ L.similar_docs # <<>>) =>
          /\ L.response = AloneResponse(L)
          /\ \A p \in 1..Len(L.response.sources) :
                \E c \in DOMAIN store :
                    L.response.sources[p] = FormatRow(store[c], L.query_embedding)

\* C25: for any interleaving of two concurrent requests, the response of
\* each is the one it gets alone against the same store and provider replies,
\* and no request's sources contain a candidate retrieved or scored for the
\* other request.
C25_RequestsIsolated == Isolated(Locals) /\ Isolated(parked)

C25_Witness ==
    /\ pc = "done"
    /\ response.status = 200
    /\ Len(response.sources) = 1
    /\ parked.pc = "scoring"
    /\ Len(parked.scoring_tasks) = 2
    /\ parked.scoring_tasks[1].done
    /\ ~parked.scoring_tasks[2].done
    /\ parked.query_embedding # query_embedding
    /\ parked.similar_docs # similar_docs
    /\ scoring_tasks[1].reply # parked.scoring_tasks[1].reply

RECURSIVE IsSubSeq(_, _)
\* a can be obtained from b by leaving elements out.
IsSubSeq(a, b) ==
    IF a = <<>> THEN TRUE
    ELSE IF b = <<>> THEN FALSE
    ELSE IF Head(a) = Head(b) THEN IsSubSeq(Tail(a), Tail(b))
    ELSE IsSubSeq(a, Tail(b))

NotApology(m) == m # Apology

\* The stored messages a step adds.
NewMessages == {messages[m]' : m \in (DOMAIN messages)' \ DOMAIN messages}

\* C30 as stated: after every turn in which no call other than ask failed,
\* the messages of the session equal the persisted messages.
C30_SessionEqualsPersisted ==
    (chat_pc = "idle" /\ failures \subseteq {"ask"}) => session_messages = PersistedView

\* C30: in a chat turn the conversation exists before the user's message is
\* persisted, the user's message is persisted before the ask call, and an
\* assistant message is persisted only after the turn's ask call returned,
\* with the answer as content. After a turn in which no call failed so far
\* the session's messages equal the persisted ones; when only ask calls
\* failed, the session's messages without the apologies equal the persisted
\* ones; in every case the persisted messages are a subsequence of the
\* session's messages and no apology is persisted.
C30_TurnOrder ==
    /\ [](/\ chat_pc \in {"add_user", "add_user_insert", "ask", "add_assistant",
                          "add_assistant_insert"} =>
                session_conversation_id \in DOMAIN conversations
          /\ (chat_pc = "idle" /\ failures = {}) => session_messages = PersistedView
          /\ (chat_pc = "idle" /\ failures = {"ask"}) =>
                /\ SelectSeq(session_messages, NotApology) = PersistedView
                /\ session_messages # PersistedView
          /\ IsSubSeq(PersistedView, session_messages)
          /\ \A m \in DOMAIN messages : messages[m].content # ApologyText)
    /\ [][/\ \A m \in NewMessages :
                /\ m.conversation_id = session_conversation_id
                /\ session_conversation_id \in DOMAIN conversations
                /\ m.role = "user" =>
                      /\ chat_pc = "add_user_insert" /\ chat_pc' = "ask"
                      /\ m.content = UserMessage.content
                /\ m.role = "assistant" =>
                      /\ chat_pc = "add_assistant_insert" /\ chat_pc' = "idle"
                      /\ m.content = AssistantMessage.content
                      /\ session_messages[Len(session_messages)] = AssistantMessage
          /\ (chat_pc # "ask" /\ chat_pc' = "ask") =>
                \E m \in NewMessages : m.role = "user"]_vars

C30_Witness ==
    /\ chat_pc = "idle"
    /\ failures = {"ask"}
    /\ session_messages = <<UserMessage, Apology>>
    /\ PersistedView = <<UserMessage>>
    /\ session_conversation_id \in DOMAIN conversations

====
